---- MODULE Spec2Model ----
(***************************************************************************)
(* The agentic retrieval loop of backend/ai_generator.py:                  *)
(* AIGenerator.generate_response, _execute_tools_for_round and             *)
(* _extract_text_content.  One query is followed from the call of          *)
(* generate_response to its return (or to the propagation of an LLM        *)
(* failure).  The LLM and the tool manager are external: every response    *)
(* and every tool outcome is a nondeterministic input.                     *)
(***************************************************************************)
EXTENDS Integers, Sequences, FiniteSets, TLC

(* ------------------------------ bounds --------------------------------- *)

\* Longest content sequence of one LLM response.
MaxBlocks == 2

(* -------------------------- program constants -------------------------- *)

MAX_ROUNDS == 2

SYSTEM_PROMPT == "You are an AI assistant specialized in course materials"

base_params == [model |-> "claude", temperature |-> 0, max_tokens |-> 800]

(* ------------------------------ inputs --------------------------------- *)

\* An optional value is a sequence: <<>> is None, <<v>> is the value v.
None == <<>>
Some(v) == <<v>>

Queries == {"What is computer use?"}

\* conversation_history: None, an empty transcript or a transcript.
Histories == {None, Some(""), Some("User: hi")}

\* tools: None, an empty list or the advertised schemas.
ToolSchemas == <<[name |-> "search_course_content"], [name |-> "get_course_outline"]>>
ToolLists == {None, Some(<<>>), Some(ToolSchemas)}

\* Python truthiness of an optional string and of an optional list.
TruthyStr(opt) == opt # None /\ opt[1] # ""
TruthyList(opt) == opt # None /\ Len(opt[1]) > 0

\* The tool the LLM asks for.
ToolNames == {"search_course_content"}

Texts == {"", "Computer use is a capability."}

TextBlock(t) == [type |-> "text", text |-> t]
ToolUseBlock(i, n) == [type |-> "tool_use", id |-> i, name |-> n, input |-> [query |-> "q"]]

\* The API gives every tool_use block an identifier of its own: block i of
\* the response to LLM call n.
ToolUseId(n, i) == "toolu_" \o ToString(n) \o "_" \o ToString(i)

\* The kinds of content block: a text block with its text, or a tool_use block
\* with its tool name.
BlockKinds == {TextBlock(t) : t \in Texts} \cup {ToolUseBlock("", n) : n \in ToolNames}

RECURSIVE SeqsUpTo(_, _)
SeqsUpTo(S, n) ==
    IF n = 0 THEN {<<>>}
    ELSE LET shorter == SeqsUpTo(S, n - 1)
         IN shorter \cup {Append(s, x) : s \in {t \in shorter : Len(t) = n - 1}, x \in S}

\* A content sequence whose tool_use blocks carry their identifiers.
Stamp(kinds, n) ==
    [i \in 1..Len(kinds) |->
        IF kinds[i].type = "tool_use" THEN ToolUseBlock(ToolUseId(n, i), kinds[i].name)
        ELSE kinds[i]]

StopReasons == {"end_turn", "tool_use"}

\* Every content of at most MaxBlocks blocks, before the identifiers are set.
ContentKinds == SeqsUpTo(BlockKinds, MaxBlocks)

\* The responses the LLM may give to call n: any stop reason with any content.
Responses(n) ==
    {[stop_reason |-> s, content |-> Stamp(k, n)] : s \in StopReasons, k \in ContentKinds}

NoResponse == [stop_reason |-> "none", content |-> <<>>]

\* What one call of tool_manager.execute_tool may do: return a string or raise.
ToolReturns == {"[Course - Lesson 1] text"}
ToolErrors == {"Database connection failed"}

Returned(v) == [kind |-> "return", value |-> v]
Raised(v) == [kind |-> "raise", value |-> v]
Pending == [kind |-> "none", value |-> ""]

(* ------------------------------- state --------------------------------- *)

VARIABLES
    pc,              \* position in generate_response
    query,           \* argument
    history,         \* argument conversation_history
    tools,           \* argument
    tool_manager,    \* argument: TRUE when a tool manager was supplied
    system_content,  \* local
    messages,        \* local
    round_num,       \* loop variable
    response,        \* local: the response whose tools are being executed
    tool_results,    \* local of _execute_tools_for_round
    block_i,         \* index of the content block the for loop is at
    result,          \* how generate_response ended
    trace            \* history: the external calls of this query, in order

\* The retrieval tool layer behind the tool manager.
VARIABLES
    rag_pc,          \* position of the top-level query
    max_results,     \* the adapter's configured maximum-results value
    catalog,         \* the course titles of the catalog collection
    last_sources,    \* last_sources of every registered tool
    sources,         \* local of the top-level query: the collected sources
    returned,        \* the (answer, sources) pair of the query that returned
    search_result,   \* history: the last adapter query and its result
    rtrace           \* history: the tool invocations of this query, in order

loopVars == <<pc, query, history, tools, tool_manager, system_content, messages, round_num,
              response, tool_results, block_i, result, trace>>

retrievalVars == <<rag_pc, max_results, catalog, last_sources, sources, returned,
                   search_result, rtrace>>

\* Two top-level queries in flight at once.
VARIABLES
    deployment,      \* how the two queries are given registries
    registries,      \* last_sources of the tools of every registry
    section,         \* the query inside the callers' critical section, if any
    query_pc,        \* position of each top-level query
    query_sources,   \* local of each query: the sources it collected
    query_returned,  \* the sources each query returned
    produced         \* history: the sources of each query's latest invocation

concurrentVars == <<deployment, registries, section, query_pc, query_sources,
                    query_returned, produced>>

\* The generator instance across its queries.
VARIABLES
    self_base_params,  \* self.base_params
    served_with_tools  \* history: an earlier query on this instance advertised tools

instanceVars == <<self_base_params, served_with_tools>>

vars == <<loopVars, retrievalVars, concurrentVars, instanceVars>>

(* ----------------------------- functions ------------------------------- *)

\* Mutant: the conversation history is dropped.
SystemContent_NoHistory(hist) == <<SYSTEM_PROMPT>>

\* system_content: the fixed prompt, followed by the history block when a
\* (truthy) conversation history was passed.  A directive is the sequence of
\* the parts the f-string joins.
SystemContent(hist) ==
    IF TruthyStr(hist)
    THEN <<SYSTEM_PROMPT, "\n\nPrevious conversation:\n", hist[1]>>
    ELSE <<SYSTEM_PROMPT>>

\* Mutant: a tools list is sent whenever one was passed, also an empty one.
ApiParams_SendsEmptyList(msgs, sys, tls) ==
    LET common == [messages |-> msgs, system |-> sys] @@ self_base_params
    IN IF tls # None
       THEN common @@ [tools |-> tls[1], tool_choice |-> [type |-> "auto"]]
       ELSE common

\* api_params of a loop round.
ApiParams(msgs, sys, tls) ==
    LET common == [messages |-> msgs, system |-> sys] @@ self_base_params
    IN IF TruthyList(tls)
       THEN common @@ [tools |-> tls[1], tool_choice |-> [type |-> "auto"]]
       ELSE common

\* Mutant: the final call advertises the tools like a loop round does.
FinalParams_WithTools(msgs, sys, tls) == ApiParams(msgs, sys, tls)

\* final_params of the forced final call; tools is in scope and left out.
FinalParams(msgs, sys, tls) == [messages |-> msgs, system |-> sys] @@ self_base_params

\* Mutant: the request is built in self.base_params itself.
BaseParamsAfter_Aliased(base, params) == params

\* self.base_params after a request was built from it: the request is a
\* new dict ({**self.base_params, ...}), the attribute is not written.
BaseParamsAfter(base, params) == base

\* Mutant: the loop has no last round.
LoopHasRound_Unbounded(r) == TRUE

\* Mutant: the loop runs one round too many.
LoopHasRound_OneMore(r) == r <= MAX_ROUNDS

\* for round_num in range(MAX_ROUNDS): whether the loop has a round r.
LoopHasRound(r) == r < MAX_ROUNDS

\* Mutant: the last text block wins.
RECURSIVE ExtractLast(_, _)
ExtractLast(content, i) ==
    IF i < 1 THEN ""
    ELSE IF content[i].type = "text" THEN content[i].text
    ELSE ExtractLast(content, i - 1)

ExtractTextContent_LastText(resp) == ExtractLast(resp.content, Len(resp.content))

\* Mutant: only the first block is looked at.
ExtractTextContent_FirstBlockOnly(resp) ==
    IF Len(resp.content) > 0 /\ resp.content[1].type = "text" THEN resp.content[1].text ELSE ""

\* _extract_text_content: the text of the first text block, else "".
RECURSIVE ExtractFrom(_, _)
ExtractFrom(content, i) ==
    IF i > Len(content) THEN ""
    ELSE IF content[i].type = "text" THEN content[i].text
    ELSE ExtractFrom(content, i + 1)

\* Mutant: a text block with empty text is passed over.
ExtractTextContent_SkipsEmptyText(resp) ==
    LET at == {i \in DOMAIN resp.content :
                  resp.content[i].type = "text" /\ resp.content[i].text # ""}
    IN IF at = {} THEN ""
       ELSE resp.content[CHOOSE i \in at : \A j \in at : i <= j].text

ExtractTextContent(resp) == ExtractFrom(resp.content, 1)

\* Mutant: tools are executed without asking whether a tool manager is there.
WantsTools_NoManagerCheck(resp, tm) == resp.stop_reason = "tool_use"

\* Mutant: the stop reason is not looked at.
WantsTools_AnyStopReason(resp, tm) == tm

\* Mutant: a round is entered only for a response holding a tool_use block.
WantsTools_NeedsToolUseBlock(resp, tm) ==
    /\ resp.stop_reason = "tool_use"
    /\ tm
    /\ \E i \in DOMAIN resp.content : resp.content[i].type = "tool_use"

\* Whether generate_response goes on to execute tools after a loop-round
\* response (otherwise it returns the extracted text).
WantsTools(resp, tm) == resp.stop_reason = "tool_use" /\ tm

\* What tool_manager.execute_tool(name, **input) may do.
ToolOutcomes == {Returned(v) : v \in ToolReturns} \cup {Raised(v) : v \in ToolErrors}

\* Mutant: the error record is tagged with the tool's name, not the block's id.
ToolResult_NameForId(block, outcome) ==
    IF outcome.kind = "return"
    THEN [type |-> "tool_result", tool_use_id |-> block.id, content |-> outcome.value]
    ELSE [type |-> "tool_result", tool_use_id |-> block.name,
          content |-> "Error executing tool: " \o outcome.value, is_error |-> TRUE]

\* Mutant: a tool failure is reported as an ordinary result.
ToolResult_ErrorUntagged(block, outcome) ==
    [type |-> "tool_result", tool_use_id |-> block.id, content |-> outcome.value]

\* The tool_result record of one dispatched tool_use block.
ToolResult(block, outcome) ==
    IF outcome.kind = "return"
    THEN [type |-> "tool_result", tool_use_id |-> block.id, content |-> outcome.value]
    ELSE [type |-> "tool_result", tool_use_id |-> block.id,
          content |-> "Error executing tool: " \o outcome.value, is_error |-> TRUE]

\* Mutant: a new record goes to the front of the list.
AddResult_AtFront(results, record) == <<record>> \o results

\* tool_results.append(record)
AddResult(results, record) == Append(results, record)

\* Mutant: the loop moves on only after a tool_use block.
NextBlock_StuckOnText(i, block) == IF block.type = "tool_use" THEN i + 1 ELSE i

\* Mutant: the block after a tool_use block is passed over.
NextBlock_SkipsNext(i, block) == IF block.type = "tool_use" THEN i + 2 ELSE i + 1

\* for content_block in response.content: the position after block i.
NextBlock(i, block) == i + 1

\* Mutant: the results are appended before the assistant's tool request.
AfterRound_ResultsFirst(msgs, resp, results) ==
    Append(Append(msgs, [role |-> "user", content |-> results]),
           [role |-> "assistant", content |-> resp.content])

\* Mutant: the round's two messages replace what was accumulated.
AfterRound_Replaces(msgs, resp, results) ==
    <<[role |-> "assistant", content |-> resp.content], [role |-> "user", content |-> results]>>

\* The two messages a completed tool round appends.
AfterRound(msgs, resp, results) ==
    Append(Append(msgs, [role |-> "assistant", content |-> resp.content]),
           [role |-> "user", content |-> results])

(* ------------------------------ events --------------------------------- *)

\* The first text block of a content sequence, if it has one.
FirstText(content) ==
    LET textAt == {i \in DOMAIN content : content[i].type = "text"}
    IN IF textAt = {} THEN None
       ELSE Some(content[CHOOSE i \in textAt : \A j \in textAt : i <= j].text)

\* What the trace records: the n-th LLM call with its request, the response
\* to it (its stop reason, its first text block and whether it has no block
\* at all), its failure, and the dispatch
\* of a tool_use block of the response to call n with what the tool did.
CallEvent(n, req) == [ev |-> "llm_call", n |-> n, request |-> req]
ResponseEvent(n, resp) ==
    [ev |-> "llm_response", n |-> n, stop_reason |-> resp.stop_reason,
     first_text |-> FirstText(resp.content),
     empty |-> resp.content = <<>>]
FailureEvent(n, err) == [ev |-> "llm_failure", n |-> n, error |-> err]
ToolEvent(n, block, outcome) == [ev |-> "tool", n |-> n, block |-> block, outcome |-> outcome]

NumCalls == Cardinality({i \in DOMAIN trace : trace[i].ev = "llm_call"})

(* ------------------------------ actions -------------------------------- *)

\* The tools the registry holds after setup.
RegisteredTools == {"search_course_content", "get_course_outline"}

NoSources == [t \in RegisteredTools |-> <<>>]

\* The tool layer after construction with configured limit m over catalog
\* cat: no top-level query in progress, no tool invoked yet.
RetrievalConstructed(m, cat) ==
    /\ rag_pc = "idle"
    /\ max_results = m
    /\ catalog = cat
    /\ last_sources = NoSources
    /\ sources = <<>>
    /\ returned = None
    /\ search_result = None
    /\ rtrace = <<>>

\* The generator after construction: no call of generate_response in progress.
GeneratorConstructed ==
    /\ pc = "idle"
    /\ query = ""
    /\ history = None
    /\ tools = None
    /\ tool_manager = FALSE
    /\ system_content = <<>>
    /\ messages = <<>>
    /\ round_num = 0
    /\ response = NoResponse
    /\ tool_results = <<>>
    /\ block_i = 1
    /\ result = Pending
    /\ trace = <<>>
    /\ self_base_params = base_params
    /\ served_with_tools = FALSE

\* Spec follows the generator; its tool manager is the opaque collaborator
\* of DispatchTool, and the tool layer stays as constructed.
\* The two queries a server may have in flight, and the registries there
\* may be.
TopLevelQueries == {1, 2}
Registries == {1, 2}

\* Two queries before either has started, under deployment dep.
ConcurrentConstructed(dep) ==
    /\ deployment = dep
    /\ registries = [r \in Registries |-> NoSources]
    /\ section = None
    /\ query_pc = [q \in TopLevelQueries |-> "idle"]
    /\ query_sources = [q \in TopLevelQueries |-> <<>>]
    /\ query_returned = [q \in TopLevelQueries |-> None]
    /\ produced = [q \in TopLevelQueries |-> <<>>]

Init ==
    /\ GeneratorConstructed
    /\ RetrievalConstructed(5, {})
    /\ ConcurrentConstructed("own")

\* generate_response is called: lines 80-93.
Call(q, hist, tls, tm) ==
    /\ pc = "idle"
    /\ query' = q
    /\ history' = hist
    /\ tools' = tls
    /\ tool_manager' = tm
    /\ system_content' = SystemContent(hist)
    /\ messages' = <<[role |-> "user", content |-> q]>>
    /\ round_num' = 0
    /\ pc' = IF LoopHasRound(0) THEN "round_call" ELSE "final_call"
    /\ UNCHANGED <<response, tool_results, block_i, result, trace>>
    /\ UNCHANGED <<retrievalVars, concurrentVars, instanceVars>>

\* A loop round issues its LLM call: lines 95-103.
RoundCall ==
    /\ pc = "round_call"
    /\ trace' = Append(trace, CallEvent(NumCalls + 1, ApiParams(messages, system_content, tools)))
    /\ self_base_params' =
          BaseParamsAfter(self_base_params, ApiParams(messages, system_content, tools))
    /\ pc' = "round_wait"
    /\ UNCHANGED <<query, history, tools, tool_manager, system_content, messages,
                   round_num, response, tool_results, block_i, result>>
    /\ UNCHANGED <<retrievalVars, concurrentVars, served_with_tools>>

\* The LLM answers a loop-round call: lines 103-116.  A response that ends
\* the query is used up by the return statement: the trace keeps its stop
\* reason and its first text block, the local keeps the last tool response.
RoundResponse(resp) ==
    /\ pc = "round_wait"
    /\ trace' = Append(trace, ResponseEvent(NumCalls, resp))
    /\ IF WantsTools(resp, tool_manager)
       THEN /\ pc' = "exec_tools"
            /\ response' = resp
            /\ tool_results' = <<>>
            /\ block_i' = 1
            /\ result' = result
       ELSE /\ pc' = "done"
            /\ result' = Returned(ExtractTextContent(resp))
            /\ UNCHANGED <<response, tool_results, block_i>>
    /\ UNCHANGED <<query, history, tools, tool_manager, system_content, messages, round_num>>
    /\ UNCHANGED <<retrievalVars, concurrentVars, instanceVars>>

\* The for loop of _execute_tools_for_round meets a block that is no
\* tool_use block: lines 150-151.
SkipBlock ==
    /\ pc = "exec_tools"
    /\ block_i <= Len(response.content)
    /\ response.content[block_i].type # "tool_use"
    /\ block_i' = NextBlock(block_i, response.content[block_i])
    /\ UNCHANGED <<pc, query, history, tools, tool_manager, system_content, messages,
                   round_num, response, tool_results, result, trace>>
    /\ UNCHANGED <<retrievalVars, concurrentVars, instanceVars>>

\* The for loop dispatches a tool_use block: lines 150-171.
DispatchTool(toolOutcome) ==
    /\ pc = "exec_tools"
    /\ block_i <= Len(response.content)
    /\ response.content[block_i].type = "tool_use"
    /\ LET block == response.content[block_i]
       IN /\ tool_results' = AddResult(tool_results, ToolResult(block, toolOutcome))
          /\ trace' = Append(trace, ToolEvent(NumCalls, block, toolOutcome))
          /\ block_i' = NextBlock(block_i, block)
    /\ UNCHANGED <<pc, query, history, tools, tool_manager, system_content, messages,
                   round_num, response, result>>
    /\ UNCHANGED <<retrievalVars, concurrentVars, instanceVars>>

\* _execute_tools_for_round returns; the round's messages are appended and
\* the loop goes on: lines 173, 116-124, 93.
EndRound ==
    /\ pc = "exec_tools"
    /\ block_i > Len(response.content)
    /\ messages' = AfterRound(messages, response, tool_results)
    /\ round_num' = round_num + 1
    /\ pc' = IF LoopHasRound(round_num + 1) THEN "round_call" ELSE "final_call"
    /\ UNCHANGED <<query, history, tools, tool_manager, system_content,
                   response, tool_results, block_i, result, trace>>
    /\ UNCHANGED <<retrievalVars, concurrentVars, instanceVars>>

\* The forced final call is issued: lines 127-134.
FinalCall ==
    /\ pc = "final_call"
    /\ trace' = Append(trace, CallEvent(NumCalls + 1, FinalParams(messages, system_content, tools)))
    /\ self_base_params' =
          BaseParamsAfter(self_base_params, FinalParams(messages, system_content, tools))
    /\ pc' = "final_wait"
    /\ UNCHANGED <<query, history, tools, tool_manager, system_content, messages,
                   round_num, response, tool_results, block_i, result>>
    /\ UNCHANGED <<retrievalVars, concurrentVars, served_with_tools>>

\* Mutant: a final response asking for tools starts another tool round.
AfterFinalResponse_ExecutesTools(resp, tm) == IF WantsTools(resp, tm) THEN "exec_tools" ELSE "done"

\* Where generate_response is after the response to the final call: it
\* returns, whatever the response asks for.
AfterFinalResponse(resp, tm) == "done"

\* The LLM answers the final call: lines 134-135.
FinalResponse(resp) ==
    /\ pc = "final_wait"
    /\ trace' = Append(trace, ResponseEvent(NumCalls, resp))
    /\ result' = Returned(ExtractTextContent(resp))
    /\ pc' = AfterFinalResponse(resp, tool_manager)
    /\ UNCHANGED <<query, history, tools, tool_manager, system_content, messages,
                   round_num, response, tool_results, block_i>>
    /\ UNCHANGED <<retrievalVars, concurrentVars, instanceVars>>

\* Mutant: a failed LLM call is issued again.
AfterLLMFailure_Retry(at) == IF at = "round_wait" THEN "round_call" ELSE "final_call"

\* Where generate_response is after client.messages.create raised at
\* position at: no try statement encloses the call, the exception leaves.
AfterLLMFailure(at) == "done"

\* client.messages.create raises; nothing catches it: lines 103, 134.
LLMFailure(err) ==
    /\ pc \in {"round_wait", "final_wait"}
    /\ result' = Raised(err)
    /\ trace' = Append(trace, FailureEvent(NumCalls, err))
    /\ pc' = AfterLLMFailure(pc)
    /\ UNCHANGED <<query, history, tools, tool_manager, system_content, messages,
                   round_num, response, tool_results, block_i>>
    /\ UNCHANGED <<retrievalVars, concurrentVars, instanceVars>>

\* The caller has the outcome; the frame of generate_response is gone and
\* the generator is ready for the next query.
ReturnToCaller ==
    /\ pc = "done"
    /\ pc' = "idle"
    /\ query' = ""
    /\ history' = None
    /\ tools' = None
    /\ tool_manager' = FALSE
    /\ system_content' = <<>>
    /\ messages' = <<>>
    /\ round_num' = 0
    /\ response' = NoResponse
    /\ tool_results' = <<>>
    /\ block_i' = 1
    /\ result' = Pending
    /\ trace' = <<>>
    /\ UNCHANGED <<retrievalVars, concurrentVars, self_base_params>>

\* The return to the caller as Spec follows it.
Finish == ReturnToCaller /\ UNCHANGED served_with_tools

\* The same step, followed with the history of the instance: whether a
\* query served so far advertised tools.
FinishRemembered ==
    /\ ReturnToCaller
    /\ served_with_tools' = (served_with_tools \/ TruthyList(tools))

LLMErrors == {"APIConnectionError", "RateLimitError"}

CallStep == \E q \in Queries, hist \in Histories, tls \in ToolLists, tm \in BOOLEAN : Call(q, hist, tls, tm)

\* The calls followed for termination: no step of generate_response reads
\* more of conversation_history and tools than whether they are truthy.
FairHistories == {None, Some("User: hi")}
FairToolLists == {None, Some(ToolSchemas)}
FairCallStep ==
    \E q \in Queries, hist \in FairHistories, tls \in FairToolLists, tm \in BOOLEAN : Call(q, hist, tls, tm)
RoundResponseStep == pc = "round_wait" /\ \E resp \in Responses(NumCalls) : RoundResponse(resp)
DispatchToolStep == \E o \in ToolOutcomes : DispatchTool(o)
FinalResponseStep == pc = "final_wait" /\ \E resp \in Responses(NumCalls) : FinalResponse(resp)
LLMFailureStep == \E err \in LLMErrors : LLMFailure(err)

\* The steps generate_response takes once it has been called.
Run ==
    \/ RoundCall
    \/ RoundResponseStep
    \/ SkipBlock
    \/ DispatchToolStep
    \/ EndRound
    \/ FinalCall
    \/ FinalResponseStep
    \/ LLMFailureStep

Next == CallStep \/ Run \/ Finish

Spec == Init /\ [][Next]_vars

\* Every LLM call and every tool dispatch returns or raises, and the
\* interpreter keeps executing a call that is in progress.
FairNext == FairCallStep \/ Run \/ Finish

FairSpec == Init /\ [][FairNext]_vars /\ WF_vars(Run)

\* The round loop over the same calls, without the progress assumption.
LoopSpec == Init /\ [][FairNext]_vars

\* One generator instance serving query after query.
ReuseNext == FairCallStep \/ Run \/ FinishRemembered

ReuseSpec == Init /\ [][ReuseNext]_vars

(* ----------------------- _extract_text_content ------------------------ *)

\* Blocks of the responses _extract_text_content is applied to on its own.
MaxExtractBlocks == 3

\* The responses handed to _extract_text_content: any stop reason, any
\* content of at most MaxExtractBlocks blocks.
ExtractInputs ==
    {[stop_reason |-> s, content |-> Stamp(k, 1)] :
        s \in StopReasons, k \in SeqsUpTo(BlockKinds, MaxExtractBlocks)}

\* _extract_text_content(response) is called and returns: lines 175-188.
ExtractText ==
    /\ pc = "extract"
    /\ result' = Returned(ExtractTextContent(response))
    /\ pc' = "extracted"
    /\ UNCHANGED <<query, history, tools, tool_manager, system_content, messages, round_num,
                   response, tool_results, block_i, trace>>
    /\ UNCHANGED <<retrievalVars, concurrentVars, instanceVars>>

ExtractInit ==
    /\ pc = "extract"
    /\ response \in ExtractInputs
    /\ query = ""
    /\ history = None
    /\ tools = None
    /\ tool_manager = FALSE
    /\ system_content = <<>>
    /\ messages = <<>>
    /\ round_num = 0
    /\ tool_results = <<>>
    /\ block_i = 1
    /\ result = Pending
    /\ trace = <<>>
    /\ self_base_params = base_params
    /\ served_with_tools = FALSE
    /\ RetrievalConstructed(5, {})
    /\ ConcurrentConstructed("own")

ExtractNext == ExtractText

\* _extract_text_content on its own, applied to every response.
ExtractSpec == ExtractInit /\ [][ExtractNext]_vars

(* ----------------------- retrieval tool layer -------------------------- *)

\* Tool invocations followed in one top-level query.
MaxInvocations == 2

CourseA == "Building Towards Computer Use with Anthropic"
CourseB == "MCP: Build Rich-Context AI Apps with Anthropic"

\* The catalog collection: empty, one course, two courses.
Catalogs == {{}, {CourseA}, {CourseA, CourseB}}

\* The configured maximum-results values: the degenerate 0 and 5.
MaxResultsValues == {0, 5}

\* Catalog entry: the link of a course and of a lesson, None when absent.
CourseLink(c) == IF c = CourseA THEN Some("https://learn/computer-use") ELSE None
LessonLink(c, n) == IF c = CourseA /\ n = 0 THEN Some("https://learn/computer-use/0") ELSE None

\* Catalog entry: the lessons of a course, in lesson-number order.
Lessons(c) ==
    IF c = CourseA
    THEN <<[number |-> 0, title |-> "Introduction"], [number |-> 1, title |-> "Overview"]>>
    ELSE <<[number |-> 1, title |-> "Why MCP"]>>

\* The content collection: chunks with their metadata; lesson_number is
\* None for a chunk outside every lesson.
AllChunks ==
    <<[text |-> "Welcome to computer use.",
       metadata |-> [course_title |-> CourseA, lesson_number |-> Some(0), chunk_index |-> 0]],
      [text |-> "This course is taught by Colt Steele.",
       metadata |-> [course_title |-> CourseA, lesson_number |-> None, chunk_index |-> 1]],
      [text |-> "MCP connects models to tools.",
       metadata |-> [course_title |-> CourseB, lesson_number |-> Some(1), chunk_index |-> 0]]>>

\* Arguments of the adapter's query and of the tools.
SearchTexts == {"computer use"}
CourseNames == {None, Some("computer use"), Some("Nonexistent Course XYZ123")}
LessonNumbers == {None, Some(0), Some(7)}
Limits == {None, Some(1), Some(3)}

\* A SearchResult set without results, with error err (None: no error).
EmptyResults(err) == [documents |-> <<>>, metadata |-> <<>>, distances |-> <<>>, error |-> err]

\* Mutant: only an exact title resolves.
ResolveCourseName_ExactOnly(cat, partial) == IF partial \in cat THEN {Some(partial)} ELSE {None}

\* resolve_course_name: the titles the nearest-neighbour lookup over catalog
\* cat may give for a partial name.  The top match is taken whatever its
\* distance; there is no candidate exactly when the catalog is empty.
ResolveCourseName(cat, partial) == IF cat = {} THEN {None} ELSE {Some(t) : t \in cat}

\* The outcomes of resolving the course filter of a query: None without a
\* filter.
Resolutions(cat, course_name) ==
    IF course_name = None THEN {None} ELSE ResolveCourseName(cat, course_name[1])

\* Mutant: with both filters a chunk passing one of them is a candidate.
Candidates_EitherFilter(cat, course, lesson) ==
    {i \in DOMAIN AllChunks :
        /\ AllChunks[i].metadata.course_title \in cat
        /\ IF course # None /\ lesson # None
           THEN \/ AllChunks[i].metadata.course_title = course[1]
                \/ AllChunks[i].metadata.lesson_number = lesson
           ELSE /\ course # None => AllChunks[i].metadata.course_title = course[1]
                /\ lesson # None => AllChunks[i].metadata.lesson_number = lesson}

\* The chunks of the catalog's courses that pass the exact-match filters.
Candidates(cat, course, lesson) ==
    {i \in DOMAIN AllChunks :
        /\ AllChunks[i].metadata.course_title \in cat
        /\ course # None => AllChunks[i].metadata.course_title = course[1]
        /\ lesson # None => AllChunks[i].metadata.lesson_number = lesson}

\* The orders in which the index may rank a candidate set: the embedding
\* distances are the index's own.
Rankings(S) ==
    {r \in [1..Cardinality(S) -> S] : \A i, j \in 1..Cardinality(S) : r[i] = r[j] => i = j}

\* The limit of one query: the explicit limit, else the configured maximum.
EffectiveLimit(limit, m) == IF limit # None THEN limit[1] ELSE m

Min(a, b) == IF a <= b THEN a ELSE b

\* Mutant: the index returns every candidate.
ResultCount_IgnoresLimit(limit, m, n) == n

\* Mutant: an explicit limit overrides a configured maximum of zero.
ResultCount_ExplicitWins(limit, m, n) == Min(EffectiveLimit(limit, m), n)

\* How many of n ranked candidates a query returns: none when the
\* configured maximum is zero, else at most the effective limit.
ResultCount(limit, m, n) == IF m = 0 THEN 0 ELSE Min(EffectiveLimit(limit, m), n)

\* The SearchResult set of the first k chunks of ranking r.
FromRanking(r, k) ==
    [documents |-> [i \in 1..k |-> AllChunks[r[i]].text],
     metadata |-> [i \in 1..k |-> AllChunks[r[i]].metadata],
     distances |-> [i \in 1..k |-> i],
     error |-> None]

CourseNotFound(name) == "No course found matching '" \o name \o "'"

\* The adapter's query once its course filter is resolved to title (None:
\* no filter, or no course found): the SearchResult sets it may return over
\* catalog cat with configured maximum m.  A failed resolution gives the
\* error result.
SearchResolved(cat, m, title, course_name, lesson_number, limit) ==
    IF course_name # None /\ title = None
    THEN {EmptyResults(Some(CourseNotFound(course_name[1])))}
    ELSE {FromRanking(r, ResultCount(limit, m, Len(r))) :
              r \in Rankings(Candidates(cat, title, lesson_number))}

\* The adapter's query: a course filter is resolved first.
Search(cat, m, course_name, lesson_number, limit) ==
    UNION {SearchResolved(cat, m, t, course_name, lesson_number, limit) :
               t \in Resolutions(cat, course_name)}

\* The context of a chunk: its course, and its lesson when it has one.
Header(meta) ==
    meta.course_title \o
    (IF meta.lesson_number # None THEN " - Lesson " \o ToString(meta.lesson_number[1]) ELSE "")

\* Content search, success: a header line and the chunk text per result,
\* the results joined by a blank line.
RECURSIVE FormatFrom(_, _)
FormatFrom(res, i) ==
    IF i > Len(res.documents) THEN ""
    ELSE "[" \o Header(res.metadata[i]) \o "]\n" \o res.documents[i] \o
         (IF i < Len(res.documents) THEN "\n\n" ELSE "") \o FormatFrom(res, i + 1)

FormatResults(res) == FormatFrom(res, 1)

\* The filters named after the no-content sentinel.
FilterInfo(course_name, lesson_number) ==
    (IF course_name # None THEN " in course '" \o course_name[1] \o "'" ELSE "") \o
    (IF lesson_number # None THEN " in lesson " \o ToString(lesson_number[1]) ELSE "")

\* The source record of one result: the header context and the lesson link
\* if there is one, else the course link, else None.
SourceOf(meta) ==
    [text |-> Header(meta),
     url |-> IF meta.lesson_number # None /\ LessonLink(meta.course_title, meta.lesson_number[1]) # None
             THEN LessonLink(meta.course_title, meta.lesson_number[1])
             ELSE CourseLink(meta.course_title)]

\* Mutant: an error result is reported like an empty one.
SearchToolOutput_ErrorAsSentinel(res, course_name, lesson_number) ==
    IF res.documents = <<>>
    THEN "No relevant content found" \o FilterInfo(course_name, lesson_number) \o "."
    ELSE FormatResults(res)

\* Content search: the string returned for the adapter's result res.
SearchToolOutput(res, course_name, lesson_number) ==
    IF res.error # None THEN res.error[1]
    ELSE IF res.documents = <<>>
         THEN "No relevant content found" \o FilterInfo(course_name, lesson_number) \o "."
         ELSE FormatResults(res)

\* Mutant: an invocation without results leaves the earlier records.
SearchToolSources_KeptWithoutResults(old, res) ==
    IF res.error # None \/ res.documents = <<>> THEN old
    ELSE [i \in 1..Len(res.metadata) |-> SourceOf(res.metadata[i])]

\* Content search: last_sources after an invocation that found res, old
\* being last_sources before it: reset, then one record per result.
SearchToolSources(old, res) ==
    IF res.error # None \/ res.documents = <<>> THEN <<>>
    ELSE [i \in 1..Len(res.metadata) |-> SourceOf(res.metadata[i])]

\* Outline lookup, success: title, link and every lesson in order.
RECURSIVE LessonLines(_, _)
LessonLines(ls, i) ==
    IF i > Len(ls) THEN ""
    ELSE "\nLesson " \o ToString(ls[i].number) \o ": " \o ls[i].title \o LessonLines(ls, i + 1)

OutlineToolOutput(title, name) ==
    IF title = None THEN CourseNotFound(name)
    ELSE "Course: " \o title[1] \o "\nLink: " \o
         (IF CourseLink(title[1]) # None THEN CourseLink(title[1])[1] ELSE "none") \o
         LessonLines(Lessons(title[1]), 1)

\* Mutant: a name the registry does not hold goes to content search.
Lookup_FallsBack(name) ==
    IF name \in RegisteredTools THEN Some(name) ELSE Some("search_course_content")

\* The registry's mapping from a name to the tool registered under it.
Lookup(name) == IF name \in RegisteredTools THEN Some(name) ELSE None

\* One call of a tool's execute: the tool and how the call ended.
Execution(tool, outcome) == [tool |-> tool, outcome |-> outcome]

\* One invocation through the registry, as the query will remember it: tool
\* is the name asked for, resolved the title a course name was resolved to,
\* results the adapter's SearchResult set when the tool queried it, executed
\* the calls of execute the registry made, outcome how invoke ended.
Invocation(tool, input, resolved, results, executed, outcome) ==
    [tool |-> tool, input |-> input, resolved |-> resolved, results |-> results,
     executed |-> executed, outcome |-> outcome]

\* The registry hands over the last_sources of all registered tools.
CollectSources(ls) == ls["search_course_content"] \o ls["get_course_outline"]

\* Mutant: the sources stay in the tools after the hand-over.
ResetSources_Keeps(ls) == ls

\* The registry clears the last_sources of every registered tool.
ResetSources(ls) == NoSources

Answers == {"Computer use is a capability."}

\* The adapter is queried directly, as its callers outside a top-level
\* query do.
AdapterQuery(text, course_name, lesson_number, limit, title, res) ==
    /\ rag_pc = "idle"
    /\ title \in Resolutions(catalog, course_name)
    /\ res \in SearchResolved(catalog, max_results, title, course_name, lesson_number, limit)
    /\ search_result' = Some([course_name |-> course_name, lesson_number |-> lesson_number,
                              limit |-> limit, resolved |-> title, results |-> res])
    /\ UNCHANGED <<rag_pc, max_results, catalog, last_sources, sources, returned, rtrace>>
    /\ UNCHANGED <<loopVars, concurrentVars, instanceVars>>

\* A top-level query starts and hands the question to the orchestrator.
StartQuery ==
    /\ rag_pc \in {"idle", "returned", "failed"}
    /\ rag_pc' = "running"
    /\ sources' = <<>>
    /\ returned' = None
    /\ search_result' = None
    /\ rtrace' = <<>>
    /\ UNCHANGED <<max_results, catalog, last_sources>>
    /\ UNCHANGED <<loopVars, concurrentVars, instanceVars>>

\* The orchestrator dispatches a content search; the tool queries the
\* adapter without an explicit limit.
InvokeSearch(name, text, course_name, lesson_number, title, res) ==
    /\ rag_pc = "running"
    /\ Len(rtrace) < MaxInvocations
    /\ Lookup(name) = Some("search_course_content")
    /\ title \in Resolutions(catalog, course_name)
    /\ res \in SearchResolved(catalog, max_results, title, course_name, lesson_number, None)
    /\ last_sources' =
          [last_sources EXCEPT !["search_course_content"] = SearchToolSources(@, res)]
    /\ search_result' = Some([course_name |-> course_name, lesson_number |-> lesson_number,
                              limit |-> None, resolved |-> title, results |-> res])
    /\ LET out == Returned(SearchToolOutput(res, course_name, lesson_number))
       IN rtrace' = Append(rtrace,
             Invocation(name,
                        [query |-> text, course_name |-> course_name, lesson_number |-> lesson_number],
                        title, Some(res),
                        <<Execution("search_course_content", out)>>, out))
    /\ UNCHANGED <<rag_pc, max_results, catalog, sources, returned>>
    /\ UNCHANGED <<loopVars, concurrentVars, instanceVars>>

\* The orchestrator dispatches an outline lookup; the tool resolves the
\* course name and populates no sources.
InvokeOutline(name, course_name, title) ==
    /\ rag_pc = "running"
    /\ Len(rtrace) < MaxInvocations
    /\ Lookup(name) = Some("get_course_outline")
    /\ title \in ResolveCourseName(catalog, course_name)
    /\ last_sources' = [last_sources EXCEPT !["get_course_outline"] = <<>>]
    /\ LET out == Returned(OutlineToolOutput(title, course_name))
       IN rtrace' = Append(rtrace,
             Invocation(name, [course_name |-> Some(course_name)], title, None,
                        <<Execution("get_course_outline", out)>>, out))
    /\ UNCHANGED <<rag_pc, max_results, catalog, sources, returned, search_result>>
    /\ UNCHANGED <<loopVars, concurrentVars, instanceVars>>

\* The orchestrator dispatches a name the registry does not hold.
InvokeUnknown(name) ==
    /\ rag_pc = "running"
    /\ Len(rtrace) < MaxInvocations
    /\ Lookup(name) = None
    /\ rtrace' = Append(rtrace,
          Invocation(name, [course_name |-> None], None, None, <<>>, Raised("UnknownTool")))
    /\ UNCHANGED <<rag_pc, max_results, catalog, last_sources, sources, returned, search_result>>
    /\ UNCHANGED <<loopVars, concurrentVars, instanceVars>>

\* The orchestrator dispatches a registered tool without the argument its
\* execute requires: the call of execute raises before the tool does
\* anything, and the registry lets the exception through.
InvokeWithoutRequired(name) ==
    /\ rag_pc = "running"
    /\ Len(rtrace) < MaxInvocations
    /\ Lookup(name) # None
    /\ LET out == Raised("TypeError")
       IN rtrace' = Append(rtrace,
             Invocation(name, [course_name |-> None], None, None,
                        <<Execution(Lookup(name)[1], out)>>, out))
    /\ UNCHANGED <<rag_pc, max_results, catalog, last_sources, sources, returned, search_result>>
    /\ UNCHANGED <<loopVars, concurrentVars, instanceVars>>

\* The orchestrator's LLM call fails: the failure leaves the top-level query.
GenerateFails ==
    /\ rag_pc = "running"
    /\ rag_pc' = "failed"
    /\ UNCHANGED <<max_results, catalog, last_sources, sources, returned, search_result, rtrace>>
    /\ UNCHANGED <<loopVars, concurrentVars, instanceVars>>

\* The orchestrator has returned its answer: the sources are collected.
Collect ==
    /\ rag_pc = "running"
    /\ sources' = CollectSources(last_sources)
    /\ rag_pc' = "collected"
    /\ UNCHANGED <<max_results, catalog, last_sources, returned, search_result, rtrace>>
    /\ UNCHANGED <<loopVars, concurrentVars, instanceVars>>

\* The registry is cleared and the query returns (answer, sources).
ResetAndReturn(answer) ==
    /\ rag_pc = "collected"
    /\ last_sources' = ResetSources(last_sources)
    /\ returned' = Some([answer |-> answer, sources |-> sources])
    /\ rag_pc' = "returned"
    /\ UNCHANGED <<max_results, catalog, sources, search_result, rtrace>>
    /\ UNCHANGED <<loopVars, concurrentVars, instanceVars>>

UnknownToolNames == {"get_weather"}

\* The names the orchestrator may ask the registry for.
NamesAsked == RegisteredTools \cup UnknownToolNames

AdapterQueryStep ==
    \E text \in SearchTexts, c \in CourseNames, l \in LessonNumbers, lim \in Limits :
        \E title \in Resolutions(catalog, c) :
            \E res \in SearchResolved(catalog, max_results, title, c, l, lim) :
                AdapterQuery(text, c, l, lim, title, res)
InvokeSearchStep ==
    \E c \in CourseNames, l \in LessonNumbers :
        \E title \in Resolutions(catalog, c) :
            \E res \in SearchResolved(catalog, max_results, title, c, l, None) :
                \E name \in NamesAsked, text \in SearchTexts :
                    InvokeSearch(name, text, c, l, title, res)
InvokeOutlineStep ==
    \E c \in CourseNames \ {None} :
        \E title \in ResolveCourseName(catalog, c[1]) :
            \E name \in NamesAsked : InvokeOutline(name, c[1], title)
InvokeUnknownStep == \E name \in NamesAsked : InvokeUnknown(name)
InvokeWithoutRequiredStep == \E name \in NamesAsked : InvokeWithoutRequired(name)
ResetAndReturnStep == \E a \in Answers : ResetAndReturn(a)

RetrievalInit ==
    /\ GeneratorConstructed
    /\ \E m \in MaxResultsValues, cat \in Catalogs : RetrievalConstructed(m, cat)
    /\ ConcurrentConstructed("own")

RetrievalNext ==
    \/ AdapterQueryStep
    \/ StartQuery
    \/ InvokeSearchStep
    \/ InvokeOutlineStep
    \/ InvokeUnknownStep
    \/ InvokeWithoutRequiredStep
    \/ GenerateFails
    \/ Collect
    \/ ResetAndReturnStep

\* The tool layer under every top-level query, for each configured limit
\* and catalog.
RetrievalSpec == RetrievalInit /\ [][RetrievalNext]_vars

(* ------------------------- concurrent queries -------------------------- *)

\* How two concurrent queries are given registries: one each, one for both,
\* or one for both with every query a critical section of its callers.
Deployments == {"own", "shared", "serialized"}

ConcurrentCatalog == {CourseA}

\* Mutant: every query is handed the same registry.
RegistryOf_AlwaysShared(dep, q) == 1

\* The registry query q works with.
RegistryOf(dep, q) == IF dep = "own" THEN q ELSE 1

\* Mutant: the callers do not serialize.
MayEnter_Always(dep, holder, q) == TRUE

\* Whether query q may start: under serialization only when no query is
\* inside the critical section.
MayEnter(dep, holder, q) == dep = "serialized" => holder = None

\* Source records with the query whose invocation produced them.
ProducedBy(q, srcs) == [i \in DOMAIN srcs |-> [source |-> srcs[i], by |-> q]]
Untagged(recs) == [i \in DOMAIN recs |-> recs[i].source]

\* Query q starts.
QueryStarts(q) ==
    /\ query_pc[q] = "idle"
    /\ MayEnter(deployment, section, q)
    /\ section' = IF deployment = "serialized" THEN Some(q) ELSE section
    /\ query_pc' = [query_pc EXCEPT ![q] = "running"]
    /\ UNCHANGED <<deployment, registries, query_sources, query_returned, produced>>
    /\ UNCHANGED <<loopVars, retrievalVars, instanceVars>>

\* The orchestrator of query q dispatches a content search; the tool of
\* q's registry resets and replaces its last_sources.
QueryInvokes(q, res) ==
    /\ query_pc[q] = "running"
    /\ LET r == RegistryOf(deployment, q)
           new == ProducedBy(q, SearchToolSources(Untagged(registries[r]["search_course_content"]), res))
       IN /\ registries' = [registries EXCEPT ![r]["search_course_content"] = new]
          /\ produced' = [produced EXCEPT ![q] = new]
    /\ UNCHANGED <<deployment, section, query_pc, query_sources, query_returned>>
    /\ UNCHANGED <<loopVars, retrievalVars, instanceVars>>

\* The orchestrator of query q has returned: q collects the sources of its
\* registry.
QueryCollects(q) ==
    /\ query_pc[q] = "running"
    /\ query_sources' =
          [query_sources EXCEPT ![q] = CollectSources(registries[RegistryOf(deployment, q)])]
    /\ query_pc' = [query_pc EXCEPT ![q] = "collected"]
    /\ UNCHANGED <<deployment, registries, section, query_returned, produced>>
    /\ UNCHANGED <<loopVars, retrievalVars, instanceVars>>

\* Query q clears its registry and returns its sources.
QueryReturns(q) ==
    /\ query_pc[q] = "collected"
    /\ registries' = [registries EXCEPT ![RegistryOf(deployment, q)] = ResetSources(@)]
    /\ query_returned' = [query_returned EXCEPT ![q] = Some(query_sources[q])]
    /\ query_pc' = [query_pc EXCEPT ![q] = "returned"]
    /\ section' = IF section = Some(q) THEN None ELSE section
    /\ UNCHANGED <<deployment, query_sources, produced>>
    /\ UNCHANGED <<loopVars, retrievalVars, instanceVars>>

QueryStartsStep == \E q \in TopLevelQueries : QueryStarts(q)
QueryInvokesStep ==
    \E q \in TopLevelQueries, l \in LessonNumbers :
        \E res \in Search(catalog, max_results, None, l, None) : QueryInvokes(q, res)
QueryCollectsStep == \E q \in TopLevelQueries : QueryCollects(q)
QueryReturnsStep == \E q \in TopLevelQueries : QueryReturns(q)

ConcurrentInit ==
    /\ GeneratorConstructed
    /\ RetrievalConstructed(5, ConcurrentCatalog)
    /\ \E dep \in Deployments : ConcurrentConstructed(dep)

ConcurrentNext ==
    \/ QueryStartsStep
    \/ QueryInvokesStep
    \/ QueryCollectsStep
    \/ QueryReturnsStep

\* Two top-level queries whose steps interleave freely, under each
\* deployment.
ConcurrentSpec == ConcurrentInit /\ [][ConcurrentNext]_vars

(* ------------------------- reading the trace --------------------------- *)

IsToolUse(b) == b.type = "tool_use"

\* The tool_use blocks of a content sequence, in content order.
ToolUseBlocks(content) == SelectSeq(content, IsToolUse)

IsCall(e) == e.ev = "llm_call"
IsResponse(e) == e.ev = "llm_response"
IsToolEvent(e) == e.ev = "tool"

\* The positions of the trace that hold an event of a kind.
CallAt == {i \in DOMAIN trace : IsCall(trace[i])}
ResponseAt == {i \in DOMAIN trace : IsResponse(trace[i])}
ToolAt == {i \in DOMAIN trace : IsToolEvent(trace[i])}

\* The tool dispatches made for the response to call n, in the order made.
DispatchesOf(n) ==
    LET OfN(e) == IsToolEvent(e) /\ e.n = n
    IN SelectSeq(trace, OfN)

\* The request of the LLM call made last.
LastRequest ==
    LET calls == CallAt
    IN trace[CHOOSE i \in calls : \A j \in calls : j <= i].request

\* The content of the response to call n that started tool round n: the
\* response in hand while the round runs, the assistant message afterwards.
RoundContent(n) ==
    IF pc = "exec_tools" /\ n = NumCalls THEN response.content ELSE messages[2 * n].content

\* The result records of tool round n, as far as they exist.
RoundResults(n) ==
    IF pc = "exec_tools" /\ n = NumCalls THEN tool_results ELSE messages[2 * n + 1].content

\* The text a response event stands for: its first text block's, else "".
TextOf(e) == IF e.first_text = None THEN "" ELSE e.first_text[1]

\* The query is over and no LLM call failed.
Answered == pc = "done" /\ result.kind = "return"

\* Every loop round got a response asking for tools, and a tool manager
\* was there to run them.
EveryRoundAskedForTools ==
    /\ tool_manager
    /\ \A n \in 1..MAX_ROUNDS :
          \E i \in ResponseAt : trace[i].n = n /\ trace[i].stop_reason = "tool_use"

(* ------------------------------- claims -------------------------------- *)

\* C1: whatever the LLM answers and whatever the tools do, one call of
\* generate_response issues at most MAX_ROUNDS + 1 = 3 LLM calls.
C1_AtMostThreeCalls == NumCalls <= MAX_ROUNDS + 1 /\ NumCalls <= 3

\* C1 witness: a query that ended after its third LLM call, with a tool
\* that raised in one round and a tool that returned in another.
C1_Witness ==
    /\ pc = "done"
    /\ NumCalls = 3
    /\ \E i, j \in ToolAt :
          /\ trace[i].n = 1 /\ trace[i].outcome.kind = "raise"
          /\ trace[j].n = 2 /\ trace[j].outcome.kind = "return"

\* C2: with a tool manager and a tool_use response in each of the MAX_ROUNDS
\* loop rounds, exactly one more LLM call follows the last tool round; its
\* request has neither tools nor tool_choice, carries the whole accumulated
\* message list and the system directive of the earlier calls, and its text
\* is what generate_response returns.
C2_ForcedFinalCall ==
    (EveryRoundAskedForTools /\ round_num = MAX_ROUNDS /\ pc \in {"final_wait", "done"}) =>
        /\ NumCalls = MAX_ROUNDS + 1
        /\ "tools" \notin DOMAIN LastRequest
        /\ "tool_choice" \notin DOMAIN LastRequest
        /\ LastRequest.messages = messages
        /\ Len(messages) = 2 * MAX_ROUNDS + 1
        /\ \A i \in CallAt : trace[i].request.system = LastRequest.system
        /\ Answered =>
              /\ IsResponse(trace[Len(trace)])
              /\ trace[Len(trace)].n = MAX_ROUNDS + 1
              /\ result.value = TextOf(trace[Len(trace)])

\* C2 witness: the forced final call was answered with a text, tool schemas
\* having been supplied.
C2_Witness ==
    /\ EveryRoundAskedForTools
    /\ Answered
    /\ TruthyList(tools)
    /\ NumCalls = MAX_ROUNDS + 1
    /\ result.value # ""

\* C3: under the fairness of FairSpec (every LLM call and every tool
\* dispatch returns or raises), every call of generate_response reaches
\* DONE, whatever the LLM does, also when every response asks for tools.
C3_EventuallyDone == (pc \notin {"idle", "done"}) ~> (pc = "done")

\* C3 witness: a query is done although all its responses, the one to the
\* final call included, had stop reason tool_use.
C3_Witness ==
    /\ Answered
    /\ Cardinality(ResponseAt) = MAX_ROUNDS + 1
    /\ \A i \in ResponseAt : trace[i].stop_reason = "tool_use"

\* C4: a loop-round response whose stop reason is not tool_use ends the
\* query at once: the first text block's content is returned, no tool is
\* dispatched for it, no message is appended, no further LLM call is made,
\* however many rounds remain; a text answer to call 1 means one call.
C4_TextAnswerEndsQuery ==
    \A i \in ResponseAt :
        (trace[i].stop_reason # "tool_use" /\ trace[i].n <= MAX_ROUNDS) =>
            /\ i = Len(trace)
            /\ pc = "done"
            /\ result = Returned(TextOf(trace[i]))
            /\ DispatchesOf(trace[i].n) = <<>>
            /\ messages = LastRequest.messages
            /\ NumCalls = trace[i].n
            /\ round_num = trace[i].n - 1
            /\ round_num < MAX_ROUNDS

\* C4 witness: with a tool manager at hand, the first call is answered
\* end_turn with a text; the query is done after one LLM call.
C4_Witness ==
    /\ pc = "done"
    /\ tool_manager
    /\ NumCalls = 1
    /\ trace[Len(trace)].ev = "llm_response"
    /\ trace[Len(trace)].stop_reason = "end_turn"
    /\ result.value # ""
    /\ messages = <<[role |-> "user", content |-> query]>>

\* C5: every tool_result record, in the round under way and in the message
\* list, carries the id of the tool_use block whose dispatch produced it,
\* whether the tool returned or raised; no record carries an id that the
\* response of its round does not have.
C5_ResultEchoesId ==
    \A n \in 1..MAX_ROUNDS :
        (n < NumCalls \/ (n = NumCalls /\ pc = "exec_tools")) =>
            LET made == DispatchesOf(n)
                records == RoundResults(n)
            IN /\ Len(records) = Len(made)
               /\ \A k \in DOMAIN records :
                     /\ records[k].tool_use_id = made[k].block.id
                     /\ \E b \in DOMAIN RoundContent(n) :
                           /\ IsToolUse(RoundContent(n)[b])
                           /\ RoundContent(n)[b].id = records[k].tool_use_id

\* C5 witness: a user message of the message list holds the record of a tool
\* that returned and the record of a tool that raised.
C5_Witness ==
    /\ Len(messages) >= 3
    /\ \E k, l \in DOMAIN messages[3].content :
          /\ "is_error" \in DOMAIN messages[3].content[k]
          /\ "is_error" \notin DOMAIN messages[3].content[l]

\* A tool dispatched for the response to call n raised, at position i of the trace.
ToolRaisedAt(i) == i \in ToolAt /\ trace[i].outcome.kind = "raise"

\* The number of tool dispatches of round trace[i].n made up to position i.
DispatchIndex(i) ==
    Cardinality({j \in ToolAt : j <= i /\ trace[j].n = trace[i].n})

\* C6: an exception raised while a tool_use block is dispatched does not
\* leave generate_response: it becomes a tool_result record with
\* is_error = TRUE and content "Error executing tool: " followed by the
\* exception message; the round's assistant and result messages are still
\* appended and the next thing after the round is the next LLM call.
C6_ToolFailureAbsorbed ==
    \A i \in ToolAt :
        ToolRaisedAt(i) =>
            LET n == trace[i].n
                record == RoundResults(n)[DispatchIndex(i)]
                roundOver == ~(pc = "exec_tools" /\ n = NumCalls)
            IN /\ "is_error" \in DOMAIN record
               /\ record.is_error = TRUE
               /\ record.content = "Error executing tool: " \o trace[i].outcome.value
               /\ record.tool_use_id = trace[i].block.id
               /\ result.kind = "raise" => trace[Len(trace)].ev = "llm_failure"
               /\ roundOver =>
                     /\ Len(messages) >= 2 * n + 1
                     /\ messages[2 * n].role = "assistant"
                     /\ ToolUseBlocks(messages[2 * n].content)[DispatchIndex(i)] = trace[i].block
                     /\ messages[2 * n + 1].role = "user"
                     /\ DispatchIndex(i) \in DOMAIN messages[2 * n + 1].content
                     /\ pc \in {"round_call", "final_call"} \/ \E j \in CallAt : trace[j].n = n + 1
                     /\ \A j \in DOMAIN trace :
                           (j > i /\ ~(IsToolEvent(trace[j]) /\ trace[j].n = n)) =>
                               \E c \in CallAt : c > i /\ c <= j /\ trace[c].n = n + 1

\* C6 witness: the first of two tools of round 1 raised, the second one
\* returned, and the query went on to an answer.
C6_Witness ==
    /\ Answered
    /\ Len(DispatchesOf(1)) = 2
    /\ DispatchesOf(1)[1].outcome.kind = "raise"
    /\ DispatchesOf(1)[2].outcome.kind = "return"

\* C7 as claimed: whenever no LLM call fails, the answer returned is a
\* non-empty text, whatever the LLM responses contain.
C7_AnswerNeverEmpty == Answered => result.value # ""

\* C7 as amended: whenever no LLM call fails, generate_response returns the
\* text of the first text block of the response that ended the query, also
\* after a round in which a tool raised and on the forced final call; the
\* answer is the empty string exactly when that response has no text block
\* or its first text block is empty.
C7_AnswerIsFirstText ==
    Answered =>
        LET last == trace[Len(trace)]
        IN /\ IsResponse(last)
           /\ result.value = TextOf(last)
           /\ result.value = "" <=> last.first_text \in {None, Some("")}

\* C7 witness: a tool raised, the loop ran out of rounds, and the final call
\* produced a non-empty answer.
C7_Witness ==
    /\ Answered
    /\ NumCalls = MAX_ROUNDS + 1
    /\ \E i \in ToolAt : ToolRaisedAt(i)
    /\ result.value # ""

\* The role the message at position j of a request must have.
RoleAt(j) == IF j % 2 = 1 THEN "user" ELSE "assistant"

\* C8: the n-th LLM call of a query sends 2n - 1 messages: first the user
\* message with the query, then per completed tool round an assistant
\* message with the round's raw response content followed by a user message
\* with all result records of the round; roles alternate and the last
\* message is a user message.
C8_MessageListShape ==
    /\ \A i \in CallAt :
          LET n == trace[i].n
              m == trace[i].request.messages
          IN /\ Len(m) = 2 * n - 1
             /\ m[1] = [role |-> "user", content |-> query]
             /\ \A j \in DOMAIN m : m[j].role = RoleAt(j)
             /\ m[Len(m)].role = "user"
             /\ m = SubSeq(messages, 1, Len(m))
             /\ \A k \in 1..(n - 1) :
                   /\ ToolUseBlocks(m[2 * k].content) = [d \in DOMAIN DispatchesOf(k) |-> DispatchesOf(k)[d].block]
                   /\ Len(m[2 * k + 1].content) = Len(DispatchesOf(k))
    /\ (round_num >= 1 /\ pc \in {"round_call", "round_wait", "final_call", "final_wait"}) =>
          /\ Len(messages) = 2 * round_num + 1
          /\ messages[2 * round_num].content = response.content
          /\ messages[2 * round_num + 1].content = tool_results

\* C8 witness: the third LLM call is out with five messages, the second of
\* which holds a response content of two blocks.
C8_Witness ==
    /\ pc = "final_wait"
    /\ Len(LastRequest.messages) = 5
    /\ Len(LastRequest.messages[2].content) = 2
    /\ Len(LastRequest.messages[5].content) = 1

\* The record the dispatch d must have produced.
RecordMatches(record, d) ==
    /\ record.tool_use_id = d.block.id
    /\ IF d.outcome.kind = "return"
       THEN record.content = d.outcome.value /\ "is_error" \notin DOMAIN record
       ELSE "is_error" \in DOMAIN record

\* C9: within a round the tool_use blocks are dispatched one at a time in
\* content order, and the result records are in that order, one per
\* tool_use block; a text block gets no record.
C9_DispatchInContentOrder ==
    \A n \in 1..MAX_ROUNDS :
        (n < NumCalls \/ (n = NumCalls /\ pc = "exec_tools")) =>
            LET made == DispatchesOf(n)
                asked == ToolUseBlocks(RoundContent(n))
                records == RoundResults(n)
                running == pc = "exec_tools" /\ n = NumCalls
                passed == IF running THEN SubSeq(response.content, 1, block_i - 1)
                          ELSE RoundContent(n)
            IN /\ Len(made) = Len(ToolUseBlocks(passed))
               /\ \A k \in DOMAIN made : made[k].block = asked[k]
               /\ Len(records) = Len(made)
               /\ \A k \in DOMAIN records : RecordMatches(records[k], made[k])
               /\ ~running => Len(records) = Len(asked)

\* C9 witness: round 1 had two tool_use blocks, the first tool returned and
\* the second raised; round 2 had a text block ahead of its tool_use block.
C9_Witness ==
    /\ Len(messages) = 5
    /\ Len(messages[3].content) = 2
    /\ "is_error" \notin DOMAIN messages[3].content[1]
    /\ "is_error" \in DOMAIN messages[3].content[2]
    /\ Len(messages[4].content) = 2
    /\ messages[4].content[1].type = "text"
    /\ Len(messages[5].content) = 1

\* C10: a query is a strict alternation: it starts with an LLM call, an LLM
\* call is followed by nothing but its response or failure, every dispatch
\* of round k comes after the response to call k and before call k + 1, and
\* a dispatch is always of a block of a preceding tool_use response.
C10_StrictlySequential ==
    /\ trace # <<>> => (IsCall(trace[1]) /\ trace[1].n = 1)
    /\ \A i \in CallAt :
          /\ IF i = Len(trace) THEN pc \in {"round_wait", "final_wait"}
             ELSE trace[i + 1].ev \in {"llm_response", "llm_failure"} /\ trace[i + 1].n = trace[i].n
          /\ trace[i].n > 1 =>
                \E r \in ResponseAt :
                    r < i /\ trace[r].n = trace[i].n - 1 /\ trace[r].stop_reason = "tool_use"
    /\ \A t \in ToolAt :
          LET k == trace[t].n
          IN /\ \E r \in ResponseAt :
                   /\ r < t
                   /\ trace[r].n = k
                   /\ trace[r].stop_reason = "tool_use"
                   /\ \A j \in (r + 1)..t : IsToolEvent(trace[j]) /\ trace[j].n = k
             /\ \A c \in CallAt : c < t <=> trace[c].n <= k
             /\ \E b \in DOMAIN RoundContent(k) : RoundContent(k)[b] = trace[t].block
    /\ pc \in {"round_call", "final_call"} => (trace = <<>> \/ IsToolEvent(trace[Len(trace)]) \/ IsResponse(trace[Len(trace)]))

\* C10 witness: two dispatches of round 1 lie between the response to call 1
\* and call 2, and a dispatch of round 2 follows the response to call 2.
C10_Witness ==
    /\ Len(trace) >= 7
    /\ IsCall(trace[1]) /\ IsResponse(trace[2])
    /\ IsToolEvent(trace[3]) /\ IsToolEvent(trace[4])
    /\ IsCall(trace[5]) /\ IsResponse(trace[6])
    /\ IsToolEvent(trace[7])

IsFailure(e) == e.ev = "llm_failure"
FailureAt == {i \in DOMAIN trace : IsFailure(trace[i])}

\* C11: when an LLM call raises, in a loop round or as the final call, the
\* exception leaves generate_response as it is: the call is not issued
\* again, and no LLM call and no tool dispatch follows in that query.
C11_LLMFailurePropagates ==
    \A i \in FailureAt :
        /\ i = Len(trace)
        /\ pc = "done"
        /\ result = Raised(trace[i].error)
        /\ i > 1 /\ IsCall(trace[i - 1]) /\ trace[i - 1].n = trace[i].n
        /\ Cardinality({c \in CallAt : trace[c].n = trace[i].n}) = 1
        /\ NumCalls = trace[i].n
        /\ Cardinality(FailureAt) = 1

\* C11 witness: the forced final call raised after two tool rounds.
C11_Witness ==
    /\ pc = "done"
    /\ result = Raised("RateLimitError")
    /\ NumCalls = MAX_ROUNDS + 1
    /\ ToolAt # {}

\* C12: a tool_use response without a tool manager does not make
\* generate_response fail: the first text block of the response is returned,
\* the empty string when it has none; no tool is dispatched, no message is
\* appended and no further LLM call is made.
C12_NoManagerReturnsText ==
    \A i \in ResponseAt :
        (trace[i].stop_reason = "tool_use" /\ ~tool_manager) =>
            /\ i = Len(trace)
            /\ pc = "done"
            /\ result = Returned(TextOf(trace[i]))
            /\ trace[i].first_text = None => result.value = ""
            /\ ToolAt = {}
            /\ messages = <<[role |-> "user", content |-> query]>>
            /\ messages = LastRequest.messages
            /\ NumCalls = 1

\* C12 witness: without a tool manager, a tool_use response that has no
\* text block ended the query with the empty string.
C12_Witness ==
    /\ pc = "done"
    /\ ~tool_manager
    /\ IsResponse(trace[Len(trace)])
    /\ trace[Len(trace)].stop_reason = "tool_use"
    /\ trace[Len(trace)].first_text = None
    /\ result = Returned("")

\* The tool rounds started so far in this query.
RoundsStarted == round_num + (IF pc = "exec_tools" THEN 1 ELSE 0)

\* C13: a query has at most MAX_ROUNDS = 2 rounds of tool dispatch: once two
\* rounds are over, no tool is dispatched and no further round starts.
C13_AtMostTwoToolRounds ==
    /\ RoundsStarted <= MAX_ROUNDS
    /\ RoundsStarted <= 2
    /\ \A t \in ToolAt : trace[t].n <= MAX_ROUNDS
    /\ Cardinality({trace[t].n : t \in ToolAt}) <= MAX_ROUNDS
    /\ round_num = MAX_ROUNDS => pc \in {"final_call", "final_wait", "done"}

\* C13 witness: two tool rounds are over, the final response asks for tools
\* once more, and the query is done.
C13_Witness ==
    /\ pc = "done"
    /\ round_num = MAX_ROUNDS
    /\ Cardinality({trace[t].n : t \in ToolAt}) = MAX_ROUNDS
    /\ IsResponse(trace[Len(trace)])
    /\ trace[Len(trace)].stop_reason = "tool_use"

\* C14 as claimed: one call of generate_response executes at most 2 tools in
\* total, also when responses hold several tool_use blocks.
C14_AtMostTwoToolExecutions == Cardinality(ToolAt) <= 2

\* The directive of a query with conversation history h.
HistoryPresent == history # None /\ history[1] # ""
DirectiveWithHistory == <<SYSTEM_PROMPT, "\n\nPrevious conversation:\n", history[1]>>
DirectiveAlone == <<SYSTEM_PROMPT>>

\* C15: every LLM call of a query, in a loop round or the final one, carries
\* the same system directive: the fixed instructions followed by the
\* "Previous conversation:" block with the history when a (non-empty)
\* history was passed, the fixed instructions alone when none was passed.
C15_SameDirectiveInEveryCall ==
    /\ \A i \in CallAt :
          /\ HistoryPresent => trace[i].request.system = DirectiveWithHistory
          /\ ~HistoryPresent => trace[i].request.system = DirectiveAlone
    /\ \A i, j \in CallAt : trace[i].request.system = trace[j].request.system

\* C15 witness: three LLM calls were made in a query with a history, and the
\* final call carries the history block.
C15_Witness ==
    /\ history = Some("User: hi")
    /\ NumCalls = MAX_ROUNDS + 1
    /\ LastRequest.system = <<SYSTEM_PROMPT, "\n\nPrevious conversation:\n", "User: hi">>

HasKey(req, k) == k \in DOMAIN req
SchemasSupplied == tools # None /\ tools[1] # <<>>

\* C16: a call of the round loop advertises the tool schemas with
\* tool_choice auto whenever schemas were supplied; a request has tool_choice
\* exactly when it has tools; when no list or an empty list was supplied no
\* call of the query has either key.
C16_ToolsAdvertisedInLoop ==
    \A i \in CallAt :
        LET req == trace[i].request IN
        /\ HasKey(req, "tool_choice") <=> HasKey(req, "tools")
        /\ (SchemasSupplied /\ trace[i].n <= MAX_ROUNDS) =>
              /\ HasKey(req, "tools") /\ req.tools = tools[1]
              /\ HasKey(req, "tool_choice") /\ req.tool_choice = [type |-> "auto"]
        /\ ~SchemasSupplied => ~HasKey(req, "tools") /\ ~HasKey(req, "tool_choice")

\* C16 witness: the call of the second round advertises the schemas with
\* tool_choice auto.
C16_Witness ==
    /\ tools = Some(ToolSchemas)
    /\ \E i \in CallAt :
          /\ trace[i].n = MAX_ROUNDS
          /\ HasKey(trace[i].request, "tools")
          /\ trace[i].request.tools = ToolSchemas
          /\ trace[i].request.tool_choice = [type |-> "auto"]

(* ----------------------- reading the tool layer ------------------------ *)

AllSourcesEmpty(ls) == \A t \in RegisteredTools : ls[t] = <<>>

\* The invocations of this query in which tool t ran: those asked for
\* under its name whose call of execute got past its arguments; and the
\* most recent of them.
InvocationsOf(t) == {i \in DOMAIN rtrace : rtrace[i].tool = t /\ rtrace[i].outcome.kind = "return"}
MostRecent(t) == rtrace[CHOOSE i \in InvocationsOf(t) : \A j \in InvocationsOf(t) : j <= i]

\* Whether an invocation of content search ended with the resolution error
\* or with the no-content sentinel.
EndedWithoutContent(e) ==
    \/ e.input.course_name # None /\ e.outcome = Returned(CourseNotFound(e.input.course_name[1]))
    \/ e.outcome = Returned("No relevant content found" \o
                            FilterInfo(e.input.course_name, e.input.lesson_number) \o ".")

\* Every adapter query on record with its limit: the direct one and those
\* of the content-search invocations.
AdapterQueries ==
    {[limit |-> search_result[i].limit, results |-> search_result[i].results] :
        i \in DOMAIN search_result}
    \cup {[limit |-> None, results |-> rtrace[i].results[1]] :
            i \in {j \in DOMAIN rtrace : rtrace[j].results # None}}

IsEmptyResult(res) == res.documents = <<>> /\ res.metadata = <<>> /\ res.distances = <<>>

\* C17: when a top-level query returns its (answer, sources) pair the
\* last_sources of every registered tool are empty, and they are empty when
\* the next top-level query starts, whatever the query invoked.
C17_SourcesEmptyAfterReturn ==
    [][/\ rag_pc' = "returned" => AllSourcesEmpty(last_sources')
       /\ (rag_pc = "returned" /\ rag_pc' = "running") => AllSourcesEmpty(last_sources')]_vars

\* C17 witness: a query whose content search populated sources has
\* returned them, and the registry holds none.
C17_Witness ==
    /\ rag_pc = "returned"
    /\ returned # None /\ returned[1].sources # <<>>
    /\ InvocationsOf("search_course_content") # {}
    /\ AllSourcesEmpty(last_sources)

C19_ZeroLimitAlwaysEmpty ==
    max_results = 0 =>
        /\ \A q \in AdapterQueries : IsEmptyResult(q.results)
        /\ \A i \in DOMAIN rtrace :
              rtrace[i].results # None => rtrace[i].outcome.kind = "return"
        /\ AllSourcesEmpty(last_sources)
        /\ sources = <<>>
        /\ returned # None => returned[1].sources = <<>>

\* C19 witness: configured maximum 0, a catalog with content, an adapter
\* query with explicit limit 3 and no filter: the result is empty and
\* carries no error.
C19_Witness ==
    /\ max_results = 0
    /\ catalog = {CourseA, CourseB}
    /\ search_result # None
    /\ search_result[1].limit = Some(3)
    /\ search_result[1].course_name = None
    /\ search_result[1].results = EmptyResults(None)

\* C20: every SearchResult set the adapter returns has documents, metadata
\* and distances of one length, at most the effective limit (the explicit
\* limit, else the configured maximum); with an error all three are empty.
C20_ResultSetShape ==
    \A q \in AdapterQueries :
        /\ Len(q.results.documents) = Len(q.results.metadata)
        /\ Len(q.results.documents) = Len(q.results.distances)
        /\ Len(q.results.documents) <= EffectiveLimit(q.limit, max_results)
        /\ q.results.error # None => IsEmptyResult(q.results)

\* C20 witness: three chunks match and the explicit limit is 1: the result
\* set has one triple.
C20_Witness ==
    /\ max_results = 5
    /\ catalog = {CourseA, CourseB}
    /\ search_result # None
    /\ search_result[1].limit = Some(1)
    /\ search_result[1].course_name = None /\ search_result[1].lesson_number = None
    /\ Len(search_result[1].results.documents) = 1

\* Every resolution of a course name on record with its outcome: that of
\* the last adapter query and those of the tool invocations.
ResolutionsMade ==
    {[name |-> search_result[i].course_name[1], resolved |-> search_result[i].resolved] :
        i \in {j \in DOMAIN search_result : search_result[j].course_name # None}}
    \cup {[name |-> rtrace[i].input.course_name[1], resolved |-> rtrace[i].resolved] :
            i \in {j \in DOMAIN rtrace : /\ rtrace[j].tool \in RegisteredTools
                                         /\ rtrace[j].input.course_name # None}}

MeantBy(name) == IF name = "computer use" THEN {CourseA} ELSE {}

\* C22 as claimed: a content search whose course filter names no course of
\* the catalog returns the "No course found" error string and leaves no
\* sources.
C22_NonexistentCourseGivesError ==
    \A i \in InvocationsOf("search_course_content") :
        LET e == rtrace[i] IN
        (e.input.course_name # None /\ MeantBy(e.input.course_name[1]) \cap catalog = {}) =>
            /\ e.outcome = Returned(CourseNotFound(e.input.course_name[1]))
            /\ i = Len(rtrace) => last_sources["search_course_content"] = <<>>

\* C23: the filters are exact and conjunctive: with a course filter every
\* returned metadata entry has the resolved title, with a lesson filter
\* every entry has that lesson number; no chunk failing a present filter is
\* returned.
C23_FiltersExactAndConjunctive ==
    \A k \in DOMAIN search_result :
        LET q == search_result[k] IN
        \A i \in DOMAIN q.results.metadata :
            /\ q.course_name # None =>
                  /\ q.resolved # None
                  /\ q.results.metadata[i].course_title = q.resolved[1]
            /\ q.lesson_number # None => q.results.metadata[i].lesson_number = q.lesson_number

\* C23 witness: a query with a course filter and a lesson filter over the
\* two-course catalog returned the one chunk passing both.
C23_Witness ==
    /\ catalog = {CourseA, CourseB}
    /\ search_result # None
    /\ search_result[1].course_name # None
    /\ search_result[1].resolved = Some(CourseA)
    /\ search_result[1].lesson_number = Some(0)
    /\ Len(search_result[1].results.metadata) = 1

\* The three kinds of string content search returns.
IsResolutionError(out) == \E c \in CourseNames \ {None} : out = CourseNotFound(c[1])
IsSentinel(out) ==
    \E c \in CourseNames, l \in LessonNumbers :
        out = "No relevant content found" \o FilterInfo(c, l) \o "."

\* C24: content search ends in exactly one of three ways: the adapter's
\* error string, verbatim, exactly when the result set carries an error; the
\* no-content sentinel naming the filters in force exactly when it carries
\* none and is empty; otherwise the formatted content, with one source
\* record per result.
C24_ThreeOutcomes ==
    \A i \in InvocationsOf("search_course_content") :
        LET e == rtrace[i]
            res == e.results[1]
            out == e.outcome.value
        IN /\ res.error # None => out = res.error[1]
           /\ IsResolutionError(out) <=> res.error # None
           /\ (res.error = None /\ res.documents = <<>>) =>
                 out = "No relevant content found" \o
                       FilterInfo(e.input.course_name, e.input.lesson_number) \o "."
           /\ IsSentinel(out) <=> (res.error = None /\ res.documents = <<>>)
           /\ (res.error = None /\ res.documents # <<>>) =>
                 /\ out = FormatResults(res)
                 /\ (rag_pc = "running" /\ i = Len(rtrace)) =>
                       Len(last_sources["search_course_content"]) = Len(res.documents)

\* C24 witness: one query saw content formatted from two results, with two
\* source records, after a search that ended with the sentinel naming its
\* course and lesson filters.
C24_Witness ==
    /\ rag_pc = "running"
    /\ Len(rtrace) = 2
    /\ InvocationsOf("search_course_content") = {1, 2}
    /\ rtrace[1].input.course_name # None /\ rtrace[1].input.lesson_number # None
    /\ IsSentinel(rtrace[1].outcome.value)
    /\ Len(rtrace[2].results[1].documents) = 2
    /\ rtrace[2].outcome.value = FormatResults(rtrace[2].results[1])
    /\ Len(last_sources["search_course_content"]) = 2

\* C25: the registry runs exactly the tool registered under the name asked
\* for and ends as that tool's execute ended, a raised exception included;
\* it raises UnknownTool, running nothing, exactly when no tool is
\* registered under the name.
C25_InvokeRoutesByName ==
    \A i \in DOMAIN rtrace :
        LET e == rtrace[i] IN
        /\ e.tool \in RegisteredTools =>
              /\ Len(e.executed) = 1
              /\ e.executed[1].tool = e.tool
              /\ e.outcome = e.executed[1].outcome
        /\ e.tool \notin RegisteredTools => e.executed = <<>>
        /\ e.outcome = Raised("UnknownTool") <=> e.tool \notin RegisteredTools

\* C25 witness: one query asked for a name the registry does not hold and
\* got UnknownTool, and asked for a registered tool whose execute raised,
\* and got that exception.
C25_Witness ==
    /\ Len(rtrace) = 2
    /\ rtrace[1].tool \notin RegisteredTools
    /\ rtrace[1].outcome = Raised("UnknownTool") /\ rtrace[1].executed = <<>>
    /\ rtrace[2].tool = "get_course_outline"
    /\ rtrace[2].executed = <<Execution("get_course_outline", Raised("TypeError"))>>
    /\ rtrace[2].outcome = Raised("TypeError")

\* The returned sources of query q hold a record another query's invocation
\* produced; query q returned no sources although its latest invocation
\* produced some.
ReturnedForeign(q) ==
    /\ query_returned[q] # None
    /\ \E i \in DOMAIN query_returned[q][1] : query_returned[q][1][i].by # q
LostOwn(q) ==
    /\ query_returned[q] # None
    /\ query_returned[q][1] = <<>>
    /\ produced[q] # <<>>

\* C26: with a registry and tool instances of its own for each of two
\* concurrent queries, under every interleaving the sources a query returns
\* hold only records its own invocations produced.
C26_OwnRegistriesNoCrossTalk ==
    deployment = "own" => \A q \in TopLevelQueries : ~ReturnedForeign(q)

\* C26 witness: with own registries query 1 returned sources while query
\* 2, which had invoked its tool meanwhile, was still holding sources it had
\* collected.
C26_Witness ==
    /\ deployment = "own"
    /\ query_pc[1] = "returned" /\ query_returned[1][1] # <<>>
    /\ query_pc[2] = "collected" /\ query_sources[2] # <<>>

\* C27: with one registry for both queries the race on last_sources is
\* excluded when each query is a critical section: every query then returns
\* exactly the sources of its own latest invocation.  Without the critical
\* section a state with foreign and lost sources is reachable (the witness).
C27_CriticalSectionExcludesRace ==
    deployment = "serialized" =>
        \A q \in TopLevelQueries :
            /\ ~ReturnedForeign(q)
            /\ ~LostOwn(q)
            /\ query_returned[q] # None => query_returned[q][1] = produced[q]

\* C27 witness: sharing one registry without serialization, query 1
\* returned sources produced by query 2's invocation and query 2 returned
\* none although its invocation had produced some.
C27_Witness ==
    /\ deployment = "shared"
    /\ ReturnedForeign(1)
    /\ LostOwn(2)

\* C28: the response to the forced final call is never acted on as a tool
\* request: nothing follows it, not a tool dispatch and not another LLM
\* call, and generate_response has returned its first text block, the
\* empty string if it has none, also when the response has stop reason
\* tool_use and tool_use blocks.
C28_FinalResponseNotActedOn ==
    \A i \in ResponseAt :
        trace[i].n = MAX_ROUNDS + 1 =>
            /\ i = Len(trace)
            /\ pc = "done"
            /\ result = Returned(TextOf(trace[i]))
            /\ \A j \in ToolAt : trace[j].n <= MAX_ROUNDS

\* C28 witness: with a tool manager, the final response had stop reason
\* tool_use and blocks, none of them a text block (so tool_use blocks
\* only); generate_response returned the empty string.
C28_Witness ==
    /\ pc = "done"
    /\ tool_manager
    /\ trace # <<>>
    /\ IsResponse(trace[Len(trace)])
    /\ trace[Len(trace)].n = MAX_ROUNDS + 1
    /\ trace[Len(trace)].stop_reason = "tool_use"
    /\ ~trace[Len(trace)].empty
    /\ trace[Len(trace)].first_text = None
    /\ result = Returned("")

\* C29: _extract_text_content returns the text of the first block of type
\* text in content order, whatever later text blocks say and whatever
\* blocks of another type come before it, and the empty string when the
\* content has no text block or no block at all.
C29_FirstTextBlockOrEmpty ==
    pc = "extracted" =>
        LET c == response.content
            textAt == {i \in DOMAIN c : c[i].type = "text"}
        IN IF textAt = {} THEN result = Returned("")
           ELSE \E i \in textAt :
                    /\ \A j \in textAt : i <= j
                    /\ result = Returned(c[i].text)

\* C29 witness: a tool_use block, then a text block with empty text, then
\* a text block with text: the empty text of the second block was returned.
C29_Witness ==
    /\ pc = "extracted"
    /\ Len(response.content) = 3
    /\ response.content[1].type = "tool_use"
    /\ response.content[2] = TextBlock("")
    /\ response.content[3] = TextBlock("Computer use is a capability.")
    /\ result = Returned("")

\* The tool_use blocks among the first k blocks of a content sequence.
ToolUseBlocksBefore(content, k) ==
    ToolUseBlocks(SubSeq(content, 1, IF k < Len(content) THEN k ELSE Len(content)))

\* The tool rounds that have run to their end.
CompletedRounds == {n \in 1..MAX_ROUNDS : Len(messages) >= 2 * n + 1}

\* C30: every tool_use block of a tool-round response is dispatched exactly
\* once, in content order, whether or not an earlier dispatch of the round
\* raised: a completed round has one dispatch and one result record per
\* tool_use block of its response, and a round in progress one per
\* tool_use block the loop has passed.
C30_EveryToolUseBlockDispatchedOnce ==
    /\ \A n \in CompletedRounds :
          LET blocks == ToolUseBlocks(RoundContent(n))
              made == DispatchesOf(n)
          IN /\ Len(made) = Len(blocks)
             /\ \A k \in DOMAIN made : made[k].block = blocks[k]
             /\ Len(RoundResults(n)) = Len(blocks)
    /\ pc = "exec_tools" =>
          LET passed == ToolUseBlocksBefore(response.content, block_i - 1)
              made == DispatchesOf(NumCalls)
          IN /\ Len(made) = Len(passed)
             /\ \A k \in DOMAIN made : made[k].block = passed[k]
             /\ Len(tool_results) = Len(passed)

\* C30 witness: the first tool_use block of a round raised and the second
\* was dispatched all the same; the completed round has two result
\* records, the first of them the error.
C30_Witness ==
    /\ 1 \in CompletedRounds
    /\ Len(ToolUseBlocks(RoundContent(1))) = 2
    /\ Len(DispatchesOf(1)) = 2
    /\ DispatchesOf(1)[1].outcome.kind = "raise"
    /\ DispatchesOf(1)[2].outcome.kind = "return"
    /\ Len(RoundResults(1)) = 2

\* C31: a response with stop reason tool_use always opens a tool round when
\* a tool manager is there, also when it holds no tool_use block: then no
\* tool is dispatched, and the round still ends with the assistant message
\* and a user message with an empty list of result records, followed by
\* the next LLM call or the forced final call.
C31_RoundWithoutToolUseBlockIsConsumed ==
    \A i \in ResponseAt :
        LET n == trace[i].n IN
        (trace[i].stop_reason = "tool_use" /\ tool_manager /\ n <= MAX_ROUNDS) =>
            /\ (pc = "exec_tools" /\ NumCalls = n) \/ n \in CompletedRounds
            /\ (n \in CompletedRounds /\ ToolUseBlocks(RoundContent(n)) = <<>>) =>
                  /\ DispatchesOf(n) = <<>>
                  /\ messages[2 * n] = [role |-> "assistant", content |-> RoundContent(n)]
                  /\ messages[2 * n + 1] = [role |-> "user", content |-> <<>>]
                  /\ round_num >= n
                  /\ \/ pc = (IF n < MAX_ROUNDS THEN "round_call" ELSE "final_call")
                     \/ \E c \in CallAt : trace[c].n = n + 1 /\ c = i + 1

\* C31 witness: the first response asked for tools with a text block only;
\* no tool ran, and the second LLM call went out with the assistant message
\* and an empty list of results.
C31_Witness ==
    /\ 1 \in CompletedRounds
    /\ RoundContent(1) # <<>>
    /\ ToolUseBlocks(RoundContent(1)) = <<>>
    /\ ToolAt = {}
    /\ NumCalls = 2
    /\ LastRequest.messages[3] = [role |-> "user", content |-> <<>>]

\* Message list a is a prefix of b; a proper one.
IsPrefix(a, b) ==
    /\ Len(a) <= Len(b)
    /\ \A k \in DOMAIN a : a[k].role = b[k].role /\ a[k].content = b[k].content
IsStrictPrefix(a, b) == Len(a) < Len(b) /\ IsPrefix(a, b)

\* C32: the message list of a query only grows by appending: no step of
\* generate_response changes or drops an accumulated message, a tool round
\* appends exactly two, a step that ends the query (text answer, missing
\* tool manager, final answer, failure) appends nothing, and the list sent
\* with call n is a strict prefix of the list sent with call n + 1.
C32_MessagesOnlyGrow ==
    [][/\ pc' # "idle" => IsPrefix(messages, messages')
       /\ pc' = "done" => messages' = messages
       /\ (pc = "exec_tools" /\ pc' # "exec_tools") => Len(messages') = Len(messages) + 2
       /\ \A i, j \in CallAt' :
             trace'[i].n + 1 = trace'[j].n =>
                 IsStrictPrefix(trace'[i].request.messages, trace'[j].request.messages)]_vars

\* C32 witness: three calls went out and the query was answered; the five
\* messages accumulated are those of the last request, the first of them
\* the question.
C32_Witness ==
    /\ Answered
    /\ NumCalls = 3
    /\ Len(messages) = 5
    /\ messages[1] = [role |-> "user", content |-> query]
    /\ messages[3].content # <<>>
    /\ messages = LastRequest.messages

\* The state of the specified machine a position of generate_response
\* stands for; before the call and after its end there is none.
MachineState(at) ==
    CASE at \in {"round_call", "round_wait", "final_call", "final_wait"} -> "AWAIT_MODEL"
      [] at = "exec_tools" -> "EXECUTING_TOOLS"
      [] at = "done" -> "DONE"
      [] OTHER -> "NONE"

\* C34: generate_response refines the three-state machine: from
\* AWAIT_MODEL a step stays or goes to EXECUTING_TOOLS or DONE, from
\* EXECUTING_TOOLS it stays or goes back to AWAIT_MODEL and never to DONE,
\* DONE is left only by the end of the call, and EXECUTING_TOOLS is entered
\* only from the AWAIT_MODEL of a round with index at most MAX_ROUNDS.
C34_RefinesThreeStateMachine ==
    [][LET from == MachineState(pc)
           to == MachineState(pc')
       IN /\ from = "NONE" => to \in {"NONE", "AWAIT_MODEL"}
          /\ from = "AWAIT_MODEL" => to \in {"AWAIT_MODEL", "EXECUTING_TOOLS", "DONE"}
          /\ from = "EXECUTING_TOOLS" => to \in {"EXECUTING_TOOLS", "AWAIT_MODEL"}
          /\ from = "DONE" => to \in {"DONE", "NONE"}
          /\ (from # "EXECUTING_TOOLS" /\ to = "EXECUTING_TOOLS") =>
                /\ pc = "round_wait"
                /\ round_num + 1 <= MAX_ROUNDS
                /\ NumCalls <= MAX_ROUNDS]_vars

\* C34 witness: the machine went AWAIT_MODEL, EXECUTING_TOOLS, AWAIT_MODEL,
\* EXECUTING_TOOLS, AWAIT_MODEL and is in DONE: both rounds ran a tool and
\* the final call was answered.
C34_Witness ==
    /\ MachineState(pc) = "DONE"
    /\ result.kind = "return"
    /\ round_num = MAX_ROUNDS
    /\ NumCalls = MAX_ROUNDS + 1
    /\ \A n \in 1..MAX_ROUNDS : DispatchesOf(n) # <<>>
    /\ IsResponse(trace[Len(trace)])

\* The keys of a request of this query: the base parameters, messages and
\* system, and tools with tool_choice in a loop round when schemas were
\* supplied with this query.
ExpectedKeys(n) ==
    DOMAIN base_params \cup {"messages", "system"}
    \cup (IF SchemasSupplied /\ n <= MAX_ROUNDS THEN {"tools", "tool_choice"} ELSE {})

\* C33: generate_response keeps no state between queries: self.base_params
\* is what the constructor set after any call, between queries there is no
\* message list, round counter or result, and every request of a query
\* carries the base parameters (model, temperature 0, max_tokens 800) and
\* otherwise only what this query's arguments and rounds determine,
\* whatever queries the instance served before.
C33_NoStateBetweenQueries ==
    /\ self_base_params = base_params
    /\ pc = "idle" =>
          /\ messages = <<>> /\ round_num = 0 /\ trace = <<>>
          /\ system_content = <<>> /\ tool_results = <<>> /\ result = Pending
    /\ \A i \in CallAt :
          LET req == trace[i].request
              n == trace[i].n
          IN /\ DOMAIN req = ExpectedKeys(n)
             /\ \A k \in DOMAIN base_params : req[k] = base_params[k]
             /\ req.temperature = 0 /\ req.max_tokens = 800
             /\ Len(req.messages) = 2 * n - 1
             /\ req.messages[1] = [role |-> "user", content |-> query]
             /\ req.system = (IF HistoryPresent THEN DirectiveWithHistory ELSE DirectiveAlone)
             /\ HasKey(req, "tools") => req.tools = tools[1]

\* C33 witness: the instance has served a query that advertised tools, and
\* the query it serves now, called without tools and without history, has
\* issued its first request: the base parameters, one message, the bare
\* directive and no tools.
C33_Witness ==
    /\ served_with_tools
    /\ tools = None /\ history = None
    /\ pc = "round_wait"
    /\ NumCalls = 1
    /\ LastRequest = [model |-> "claude", temperature |-> 0, max_tokens |-> 800,
                      messages |-> <<[role |-> "user", content |-> query]>>,
                      system |-> <<SYSTEM_PROMPT>>]

====
